---- MODULE Spec2Model ----
(***************************************************************************)
(* Kernel startup (kern/src/startup.rs): validation of the application     *)
(* image, the boot-time bump allocator, construction of the task table and *)
(* the handoff to the first user task.                                     *)
(*                                                                         *)
(* The image is read-only input.  The header is fixed when start_kernel is *)
(* entered; every descriptor that follows it is drawn when start_kernel    *)
(* first reads it and is stored, so that every later read sees the same    *)
(* value.  All collaborators outside this file (arch::*, task::select,     *)
(* task::set_fault_notification) are recorded by the calls made to them.   *)
(***************************************************************************)
EXTENDS Integers, Sequences, FiniteSets, TLC

(***************************************************************************)
(* Bounds of the model.                                                    *)
(***************************************************************************)
MaxTasks == 2
MaxRegions == 2
MaxIrqs == 1
Near == 1

(***************************************************************************)
(* Program constants.                                                      *)
(***************************************************************************)
\* u32 and, on the 32-bit target, usize arithmetic wraps at the word size.  TLC's
\* integers are 32-bit signed, so 2^32 itself cannot be written: the word is
\* scaled to 16 bits, and every operation of the code on a word (wrapping_add,
\* wrapping_sub, the usize product of gimme_n, tasks.len() - 1) is taken modulo
\* WordMod.  RegionLimit and ByteMod keep their values and stay below the word
\* size, as in the source.
WordMod == 2 ^ 16
UsizeMod == WordMod
\* region_idx is a u8.
ByteMod == 256
\* assert!(app_header.region_count < 256)
RegionLimit == 256
\* zeroed_expansion_space: [u8; 12]
ExpansionLen == 12
\* app::CURRENT_APP_MAGIC and app::REGIONS_PER_TASK are declared outside this
\* file; the model takes a magic number of its own and two regions per task.
CURRENT_APP_MAGIC == 502245281
REGIONS_PER_TASK == 2

\* size_of / align_of of the two element types gimme_n is instantiated with:
\* Task (the task table) and &RegionDesc (a region table).
TaskSize == 24
TaskAlign == 8
RefSize == 4
RefAlign == 4

(***************************************************************************)
(* Bit sets (bitflags) are modelled as sets of flag names.                 *)
(***************************************************************************)
Intersects(flags, mask) == flags \cap mask # {}
Contains(flags, mask) == mask \subseteq flags

RegionReserved == {"RESERVED"}
TaskReserved == {"RESERVED"}

(***************************************************************************)
(* Wrapping 32-bit arithmetic.                                             *)
(***************************************************************************)
WrappingAdd(a, b) == (a + b) % WordMod
WrappingSub(a, b) == (a - b + WordMod) % WordMod

(***************************************************************************)
(* Input domains.                                                          *)
(***************************************************************************)
LowBase == 2048
RegionSize == 256
TopBase == WordMod - RegionSize

ZeroExpansion == [k \in 1..ExpansionLen |-> 0]
Expansions ==
    {ZeroExpansion} \cup
    {[k \in 1..ExpansionLen |-> IF k = j THEN 1 ELSE 0] : j \in {1, ExpansionLen}}

Headers ==
    [magic : {CURRENT_APP_MAGIC, 0},
     task_count : 0..MaxTasks,
     region_count : (0..MaxRegions) \cup {RegionLimit, RegionLimit + 1},
     irq_count : 0..MaxIrqs,
     fault_notification : {0, 5},
     zeroed_expansion_space : Expansions]

RegionDescs ==
    [base : {LowBase, TopBase},
     size : {RegionSize},
     attributes : {{"READ", "EXECUTE"}, {"READ", "WRITE"}, {"READ"},
                   {"READ", "WRITE", "EXECUTE"}, {"READ", "WRITE", "RESERVED"}},
     reserved_zero : {0, 1}]

TaskDescs ==
    [priority : {1, ByteMod + 1},
     flags : {{}, {"START_AT_BOOT"}, {"RESERVED"}},
     entry_point : {LowBase, LowBase + RegionSize},
     initial_stack : {LowBase + RegionSize, LowBase + RegionSize + 1},
     regions : [1..REGIONS_PER_TASK -> 0..MaxRegions]]

Interrupts == [irq : {7}, task : (0..MaxTasks) \cup {MaxTasks + 3}]

ScratchBase == 8192
BootScratch ==
    [ptr : {ScratchBase + 1},
     len : {0,
            TaskSize + REGIONS_PER_TASK * RefSize + TaskAlign,
            MaxTasks * (TaskSize + REGIONS_PER_TASK * RefSize) + TaskAlign}]

(***************************************************************************)
(* State.                                                                  *)
(***************************************************************************)
VARIABLES
    pc,               \* position of the boot sequence
    overflow_checks,  \* build profile: does usize overflow panic (TRUE) or wrap
    scratch,          \* scratch_ram, scratch_ram_size
    app_header,       \* *app_header_ptr
    regions,          \* region descriptors read so far
    task_descs,       \* task descriptors read so far
    interrupts,       \* interrupt descriptors read so far
    alloc,            \* BumpPointer.0: the free view [ptr, len]
    blocks,           \* blocks returned by gimme_n, in order
    tasks,            \* the runtime task table
    cur,              \* index of the task the construction loop is at
    first_task_index, \* result of task::select
    calls             \* calls made to the collaborators, in order

vars == <<pc, overflow_checks, scratch, app_header, regions, task_descs,
          interrupts, alloc, blocks, tasks, cur, first_task_index, calls>>

(***************************************************************************)
(* Image validation (start_kernel).                                        *)
(***************************************************************************)
\* HeaderOk with the region count compared by <= instead of <.
HeaderOkLimitInclusive(h) ==
    /\ h.magic = CURRENT_APP_MAGIC
    /\ h.region_count <= RegionLimit
    /\ h.zeroed_expansion_space = ZeroExpansion

\* Lines 32-40: the three header assertions.
HeaderOk(h) ==
    /\ h.magic = CURRENT_APP_MAGIC
    /\ h.region_count < RegionLimit
    /\ h.zeroed_expansion_space = ZeroExpansion

\* Lines 63-69: the three assertions of the region loop's body.
AttributesOk(region) == ~Intersects(region.attributes, RegionReserved)

\* NoOverflow with the comparison >, which turns away every empty region.
NoOverflowStrict(region) == WrappingAdd(region.base, region.size) > region.base

NoOverflow(region) == WrappingAdd(region.base, region.size) >= region.base
RegionOk(region) ==
    /\ AttributesOk(region)
    /\ NoOverflow(region)
    /\ region.reserved_zero = 0

\* Line 79: region_idx < app_header.region_count as u8, and the bounds check
\* of regions[region_idx as usize] on line 80.
RegionIdxOk(region_idx, h, regs) ==
    /\ region_idx < h.region_count % ByteMod
    /\ region_idx < Len(regs)

\* Lines 81-85 and 89-95: the two tests made on one region of a task.
EntryHit(task, region) ==
    /\ WrappingSub(task.entry_point, region.base) < region.size
    /\ Contains(region.attributes, {"EXECUTE"})
\* StackHit with the comparison of the entry point: an initial stack pointer
\* at the very top of its region is not found.
StackHitStrict(task, region) ==
    /\ WrappingSub(task.initial_stack, region.base) < region.size
    /\ Contains(region.attributes, {"READ", "WRITE"})

StackHit(task, region) ==
    /\ WrappingSub(task.initial_stack, region.base) <= region.size
    /\ Contains(region.attributes, {"READ", "WRITE"})

\* Lines 76-96: the loop over task.regions from position k on.  The result
\* carries panicked = TRUE when the assertion or the bounds check inside the
\* loop fails, and otherwise the two flags.  Regions are numbered from 0,
\* sequences from 1.
NothingFound ==
    [panicked |-> FALSE, entry_pt_found |-> FALSE, stack_ptr_found |-> FALSE]

RECURSIVE ScanRegions(_, _, _, _, _)
ScanRegions(task, h, regs, k, found) ==
    IF k > REGIONS_PER_TASK THEN found
    ELSE LET region_idx == task.regions[k] IN
         IF ~RegionIdxOk(region_idx, h, regs)
         THEN [found EXCEPT !.panicked = TRUE]
         ELSE LET region == regs[region_idx + 1] IN
              ScanRegions(task, h, regs, k + 1,
                  [panicked |-> FALSE,
                   entry_pt_found |-> found.entry_pt_found \/ EntryHit(task, region),
                   stack_ptr_found |-> found.stack_ptr_found \/ StackHit(task, region)])

\* Lines 74-99: the body of the task loop.
TaskOk(task, h, regs) ==
    /\ ~Intersects(task.flags, TaskReserved)
    /\ LET found == ScanRegions(task, h, regs, 1, NothingFound)
       IN /\ ~found.panicked
          /\ found.entry_pt_found
          /\ found.stack_ptr_found

\* IrqOk with the comparison off by one.
IrqOkOffByOne(irq, h) == irq.task <= h.task_count

\* Line 105: irq.task < tasks.len() as u32.
IrqOk(irq, h) == irq.task < h.task_count

\* AfterTasks with the interrupt loop placed after the allocations, so that
\* construction starts without it.
AfterTasksSkipIrqs(h) == "alloc_tasks"

\* The loop that follows the header checks, the region loop, the task loop.
AfterTasks(h) == IF h.irq_count > 0 THEN "irqs" ELSE "alloc_tasks"
AfterRegions(h) == IF h.task_count > 0 THEN "tasks" ELSE AfterTasks(h)
AfterHeader(h) == IF h.region_count > 0 THEN "regions" ELSE AfterRegions(h)

(***************************************************************************)
(* The bump allocator (BumpPointer).  A slice of bytes is [ptr, len].      *)
(***************************************************************************)
\* Line 195: what mem::replace leaves in self.0 while gimme_n runs (an empty
\* slice, dangling at the alignment of u8).
EmptySlice == [ptr |-> 1, len |-> 0]

\* AlignOffset that pads a whole alignment unit when the pointer is aligned
\* already.
AlignOffsetNoWrap(ptr, align) == align - (ptr % align)

\* Line 198: free.as_ptr().align_offset(align_of::<T>()).
AlignOffset(ptr, align) == (align - (ptr % align)) % align

\* Line 201: n * size_of::<T>() in usize.  With overflow checks the product
\* panics when it does not fit; without them it wraps.
UsizeMul(n, size) ==
    [overflow |-> n * size >= UsizeMod, value |-> (n * size) % UsizeMod]

\* Line 212: allocated.add(i), the place element i is written to.
ElemAddr(allocated, i, size) == allocated + i * size

\* Lines 210-214: the writes of the initialisation loop, in order: the k-th
\* write stores init(idx) at addr.
InitWrites(allocated, n, size) ==
    [k \in 1..n |-> [addr |-> ElemAddr(allocated, k - 1, size), idx |-> k - 1]]

\* Lines 186-216.  The result says whether the call panicked, what self.0 is
\* afterwards, and the block returned: from_raw_parts_mut(allocated, n).
\* wild: the product wrapped, so the slice split off is shorter than the n
\* elements written and returned; the writes are then not enumerated.
GimmeN(free, n, size, align, checks) ==
    LET align_delta == AlignOffset(free.ptr, align)
        product == UsizeMul(n, size)
        bytes == product.value
        allocated == free.ptr + align_delta
        panicked == \/ align_delta > free.len
                    \/ product.overflow /\ checks
                    \/ bytes > free.len - align_delta
    IN IF panicked
       THEN [panicked |-> TRUE, free |-> EmptySlice, wild |-> FALSE,
             block |-> [ptr |-> 0, n |-> 0, size |-> size, writes |-> <<>>]]
       ELSE [panicked |-> FALSE,
             free |-> [ptr |-> allocated + bytes,
                       len |-> free.len - align_delta - bytes],
             wild |-> product.overflow,
             block |-> [ptr |-> allocated, n |-> n, size |-> size,
                        writes |-> IF product.overflow THEN <<>>
                                   ELSE InitWrites(allocated, n, size)]]

\* Element j of a returned slice is what lies at ptr + j * size_of::<T>():
\* the index given to init by the last write to that address, or -1 when the
\* loop wrote nothing there.
ElementAt(block, j) ==
    LET at == {k \in 1..Len(block.writes) :
                  block.writes[k].addr = block.ptr + j * block.size}
    IN IF at = {} THEN -1
       ELSE block.writes[CHOOSE k \in at : \A m \in at : m <= k].idx

(***************************************************************************)
(* Construction of the task table (safe_start_kernel).                     *)
(***************************************************************************)
\* Line 126: abi::Priority(task_desc.priority as u8).
PriorityOf(task_desc) == task_desc.priority % ByteMod

\* InitialState with the flag ignored.
InitialStateAlwaysRunnable(task_desc) == "Runnable"

\* Lines 127-131.
InitialState(task_desc) ==
    IF Contains(task_desc.flags, {"START_AT_BOOT"}) THEN "Runnable" ELSE "Default"

\* Lines 123-142: the closure given to gimme_n for the task table.  The
\* descriptor reference is the descriptor's index in task_descs.
NewTask(descs, i) ==
    [priority |-> PriorityOf(descs[i + 1]),
     state |-> InitialState(descs[i + 1]),
     descriptor |-> i,
     generation |-> 0,
     notification_mask |-> 0,
     notifications |-> 0,
     save |-> "default",
     region_table |-> <<>>,
     timer |-> "default"]

\* Lines 147-149: the closure given to gimme_n for a region table.  A
\* reference to a region descriptor is the descriptor's index in region_descs.
RegionRefReversed(task_desc, i) == task_desc.regions[REGIONS_PER_TASK - i]
\* RegionRef resolving every element to the task's first region.
RegionRefFirst(task_desc, i) == task_desc.regions[1]

RegionRef(task_desc, i) == task_desc.regions[i + 1]

\* The slice gimme_n returns, read element by element.
TaskSlice(block, descs) ==
    [k \in 1..block.n |-> NewTask(descs, ElementAt(block, k - 1))]
RegionSlice(block, task_desc) ==
    [k \in 1..block.n |-> RegionRef(task_desc, ElementAt(block, k - 1))]

\* A call to a collaborator: its name, its scalar argument, what it is given
\* of the task storage ("tasks": the table, "task": one entry, "none"), the
\* task table as it is at the call and the number of blocks allocated so far.
Call(op, arg, given) ==
    [op |-> op, arg |-> arg, given |-> given, table |-> tasks,
     nblocks |-> Len(blocks)]

Init ==
    /\ pc = "header"
    /\ overflow_checks \in BOOLEAN
    /\ scratch \in BootScratch
    /\ app_header \in Headers
    /\ regions = <<>>
    /\ task_descs = <<>>
    /\ interrupts = <<>>
    /\ alloc = scratch
    /\ blocks = <<>>
    /\ tasks = <<>>
    /\ cur = 0
    /\ first_task_index = 0
    /\ calls = <<>>

\* Lines 26-40.
ValidateHeader ==
    /\ pc = "header"
    /\ pc' = IF HeaderOk(app_header) THEN AfterHeader(app_header) ELSE "aborted"
    /\ UNCHANGED <<overflow_checks, scratch, app_header, regions, task_descs,
                   interrupts, alloc, blocks, tasks, cur, first_task_index, calls>>

\* Lines 61-70: one iteration of the region loop, the descriptor read being
\* one of pool.
ValidateRegionFrom(pool) ==
    /\ pc = "regions"
    /\ \E region \in pool :
         /\ regions' = Append(regions, region)
         /\ pc' = IF ~RegionOk(region) THEN "aborted"
                  ELSE IF Len(regions') < app_header.region_count THEN "regions"
                  ELSE AfterRegions(app_header)
    /\ UNCHANGED <<overflow_checks, scratch, app_header, task_descs,
                   interrupts, alloc, blocks, tasks, cur, first_task_index, calls>>

ValidateRegion == ValidateRegionFrom(RegionDescs)

\* Lines 73-100: one iteration of the task loop, the descriptor read being
\* one of pool.
ValidateTaskFrom(pool) ==
    /\ pc = "tasks"
    /\ \E task \in pool :
         /\ task_descs' = Append(task_descs, task)
         /\ pc' = IF ~TaskOk(task, app_header, regions) THEN "aborted"
                  ELSE IF Len(task_descs') < app_header.task_count THEN "tasks"
                  ELSE AfterTasks(app_header)
    /\ UNCHANGED <<overflow_checks, scratch, app_header, regions,
                   interrupts, alloc, blocks, tasks, cur, first_task_index, calls>>

ValidateTask == ValidateTaskFrom(TaskDescs)

\* Lines 103-106: one iteration of the interrupt loop.
ValidateIrq ==
    /\ pc = "irqs"
    /\ \E irq \in Interrupts :
         /\ interrupts' = Append(interrupts, irq)
         /\ pc' = IF ~IrqOk(irq, app_header) THEN "aborted"
                  ELSE IF Len(interrupts') < app_header.irq_count THEN "irqs"
                  ELSE "alloc_tasks"
    /\ UNCHANGED <<overflow_checks, scratch, app_header, regions, task_descs,
                   alloc, blocks, tasks, cur, first_task_index, calls>>

\* LoopNext stopping one task early, and LoopNext with the loop left out.
LoopNextOffByOne(c, ntasks, ndescs) ==
    IF c + 1 < ntasks /\ c + 1 < ndescs THEN "alloc_table" ELSE "publish_tasks"
LoopNextNever(c, ntasks, ndescs) == "publish_tasks"

\* Line 146: tasks.iter_mut().zip(task_descs) has a next pair at position c
\* while c is below both lengths; after the loop comes line 165.
LoopNext(c, ntasks, ndescs) ==
    IF c < ntasks /\ c < ndescs THEN "alloc_table" ELSE "publish_tasks"

\* Line 123: the task table is allocated and every entry initialised.  A
\* wrapped product makes the loop write outside the slice split off: the
\* behaviour is then undefined.
AllocTasks ==
    /\ pc = "alloc_tasks"
    /\ LET r == GimmeN(alloc, app_header.task_count, TaskSize, TaskAlign,
                       overflow_checks)
       IN /\ alloc' = r.free
          /\ IF r.panicked
             THEN /\ pc' = "aborted"
                  /\ UNCHANGED <<blocks, tasks>>
             ELSE /\ blocks' = Append(blocks, r.block)
                  /\ tasks' = TaskSlice(r.block, task_descs)
                  /\ pc' = IF r.wild THEN "undefined"
                           ELSE LoopNext(0, Len(tasks'), Len(task_descs))
    /\ cur' = 0
    /\ UNCHANGED <<overflow_checks, scratch, app_header, regions, task_descs,
                   interrupts, first_task_index, calls>>

\* Lines 146-149: the region table of task cur is allocated and assigned.
AllocRegionTable ==
    /\ pc = "alloc_table"
    /\ LET r == GimmeN(alloc, REGIONS_PER_TASK, RefSize, RefAlign,
                       overflow_checks)
       IN /\ alloc' = r.free
          /\ IF r.panicked
             THEN /\ pc' = "aborted"
                  /\ UNCHANGED <<blocks, tasks>>
             ELSE /\ blocks' = Append(blocks, r.block)
                  /\ tasks' = [tasks EXCEPT ![cur + 1].region_table =
                                   RegionSlice(r.block, task_descs[cur + 1])]
                  /\ pc' = "reinit"
    /\ UNCHANGED <<overflow_checks, scratch, app_header, regions, task_descs,
                   interrupts, cur, first_task_index, calls>>

\* Line 152: arch::reinitialize(task), then the loop moves to the next task.
Reinitialize ==
    /\ pc = "reinit"
    /\ calls' = Append(calls, Call("reinitialize", cur, "task"))
    /\ tasks' = [tasks EXCEPT ![cur + 1].save = "initialized"]
    /\ cur' = cur + 1
    /\ pc' = LoopNext(cur', Len(tasks), Len(task_descs))
    /\ UNCHANGED <<overflow_checks, scratch, app_header, regions, task_descs,
                   interrupts, alloc, blocks, first_task_index>>

\* Line 165.
SetTaskTable ==
    /\ pc = "publish_tasks"
    /\ calls' = Append(calls, Call("set_task_table", Len(tasks), "tasks"))
    /\ pc' = "publish_irqs"
    /\ UNCHANGED <<overflow_checks, scratch, app_header, regions, task_descs,
                   interrupts, alloc, blocks, tasks, cur, first_task_index>>

\* Line 166.
SetIrqTable ==
    /\ pc = "publish_irqs"
    /\ calls' = Append(calls, Call("set_irq_table", Len(interrupts), "none"))
    /\ pc' = "fault_note"
    /\ UNCHANGED <<overflow_checks, scratch, app_header, regions, task_descs,
                   interrupts, alloc, blocks, tasks, cur, first_task_index>>

\* Line 168.
SetFaultNotification ==
    /\ pc = "fault_note"
    /\ calls' = Append(calls, Call("set_fault_notification",
                                   app_header.fault_notification, "none"))
    /\ pc' = "select"
    /\ UNCHANGED <<overflow_checks, scratch, app_header, regions, task_descs,
                   interrupts, alloc, blocks, tasks, cur, first_task_index>>

\* LastIndex giving the index one past the last task.
LastIndexOnePast(len, checks) == [panicked |-> FALSE, value |-> len]

\* Line 172: tasks.len() - 1 in usize: on an empty table it panics with
\* overflow checks and wraps to usize::MAX without them.
LastIndex(len, checks) ==
    [panicked |-> len = 0 /\ checks, value |-> (len - 1 + UsizeMod) % UsizeMod]

\* What task::select may return: any index, in the table or not.
SelectResults == 0..MaxTasks

\* Line 172: task::select(tasks.len() - 1, tasks).
Select ==
    /\ pc = "select"
    /\ LET last == LastIndex(Len(tasks), overflow_checks)
       IN IF last.panicked
          THEN /\ pc' = "aborted"
               /\ UNCHANGED <<first_task_index, calls>>
          ELSE /\ calls' = Append(calls, Call("select", last.value, "tasks"))
               /\ \E index \in SelectResults : first_task_index' = index
               /\ pc' = "protect"
    /\ UNCHANGED <<overflow_checks, scratch, app_header, regions, task_descs,
                   interrupts, alloc, blocks, tasks, cur>>

\* ApplyMemoryProtection given the first task of the table instead of the task
\* selected.
ApplyMemoryProtectionTaskZero ==
    /\ pc = "protect"
    /\ IF first_task_index < Len(tasks)
       THEN /\ calls' = Append(calls, Call("apply_memory_protection", 0, "task"))
            /\ pc' = "start"
       ELSE /\ pc' = "aborted"
            /\ UNCHANGED calls
    /\ UNCHANGED <<overflow_checks, scratch, app_header, regions, task_descs,
                   interrupts, alloc, blocks, tasks, cur, first_task_index>>

\* Line 178: &tasks[first_task_index] is bounds-checked.
ApplyMemoryProtection ==
    /\ pc = "protect"
    /\ IF first_task_index < Len(tasks)
       THEN /\ calls' = Append(calls, Call("apply_memory_protection",
                                           first_task_index, "task"))
            /\ pc' = "start"
       ELSE /\ pc' = "aborted"
            /\ UNCHANGED calls
    /\ UNCHANGED <<overflow_checks, scratch, app_header, regions, task_descs,
                   interrupts, alloc, blocks, tasks, cur, first_task_index>>

\* StartFirstTask with a start_first_task that returns to its caller, which
\* carries on from switch_to_user's first line.
StartFirstTaskReturns ==
    /\ pc = "start"
    /\ calls' = Append(calls, Call("start_first_task", first_task_index, "task"))
    /\ pc' = "protect"
    /\ UNCHANGED <<overflow_checks, scratch, app_header, regions, task_descs,
                   interrupts, alloc, blocks, tasks, cur, first_task_index>>

\* Line 180: control passes to the first task and never comes back.
StartFirstTask ==
    /\ pc = "start"
    /\ IF first_task_index < Len(tasks)
       THEN /\ calls' = Append(calls, Call("start_first_task",
                                           first_task_index, "task"))
            /\ pc' = "running"
       ELSE /\ pc' = "aborted"
            /\ UNCHANGED calls
    /\ UNCHANGED <<overflow_checks, scratch, app_header, regions, task_descs,
                   interrupts, alloc, blocks, tasks, cur, first_task_index>>

Next ==
    \/ ValidateHeader
    \/ ValidateRegion
    \/ ValidateTask
    \/ ValidateIrq
    \/ AllocTasks
    \/ AllocRegionTable
    \/ Reinitialize
    \/ SetTaskTable
    \/ SetIrqTable
    \/ SetFaultNotification
    \/ Select
    \/ ApplyMemoryProtection
    \/ StartFirstTask

Spec == Init /\ [][Next]_vars

(***************************************************************************)
(* Validation alone, over addresses and sizes at the edges of the word.    *)
(***************************************************************************)
EdgeWords ==
    (0..Near) \cup {WordMod \div 2} \cup ((WordMod - 1 - Near)..(WordMod - 1))

EdgeRegionDescs ==
    [base : EdgeWords,
     size : EdgeWords,
     attributes : {{"READ", "EXECUTE"}, {"READ", "WRITE"}, {"READ"}},
     reserved_zero : {0}]

EdgeTaskDescs ==
    [priority : {1},
     flags : {{}},
     entry_point : EdgeWords,
     initial_stack : EdgeWords,
     regions : [1..REGIONS_PER_TASK -> 0..(REGIONS_PER_TASK - 1)]]

InitEdge ==
    /\ pc = "header"
    /\ overflow_checks = TRUE
    /\ scratch = [ptr |-> ScratchBase, len |-> 0]
    /\ app_header = [magic |-> CURRENT_APP_MAGIC, task_count |-> 1,
                     region_count |-> REGIONS_PER_TASK, irq_count |-> 0,
                     fault_notification |-> 0,
                     zeroed_expansion_space |-> ZeroExpansion]
    /\ regions = <<>>
    /\ task_descs = <<>>
    /\ interrupts = <<>>
    /\ alloc = scratch
    /\ blocks = <<>>
    /\ tasks = <<>>
    /\ cur = 0
    /\ first_task_index = 0
    /\ calls = <<>>

EdgeValidateRegion == ValidateRegionFrom(EdgeRegionDescs)
EdgeValidateTask == ValidateTaskFrom(EdgeTaskDescs)

NextEdge ==
    \/ ValidateHeader
    \/ EdgeValidateRegion
    \/ EdgeValidateTask

SpecEdge == InitEdge /\ [][NextEdge]_vars

(***************************************************************************)
(* The allocation sequence of safe_start_kernel alone, for every task      *)
(* count a u32 can hold: gimme_n for the task table (line 123), then one   *)
(* gimme_n per task for its region table (lines 146-149).  What the blocks *)
(* hold is left out; where they lie is kept.                               *)
(***************************************************************************)
\* The smallest task counts whose byte size does not fit a usize.
WrapCount == (UsizeMod \div TaskSize) + 1
AllocCounts == (0..MaxTasks) \cup {WrapCount, WrapCount + 1, WordMod - 1}

AllocScratch ==
    [ptr : {ScratchBase + d : d \in 0..(TaskAlign - 1)},
     len : 0..(MaxTasks * (TaskSize + REGIONS_PER_TASK * RefSize) + TaskAlign)]

InitAlloc ==
    /\ pc = "alloc_tasks"
    /\ overflow_checks \in BOOLEAN
    /\ scratch \in AllocScratch
    /\ app_header \in [magic : {CURRENT_APP_MAGIC}, task_count : AllocCounts,
                       region_count : {1}, irq_count : {0},
                       fault_notification : {0},
                       zeroed_expansion_space : {ZeroExpansion}]
    /\ regions = <<>>
    /\ task_descs = <<>>
    /\ interrupts = <<>>
    /\ alloc = scratch
    /\ blocks = <<>>
    /\ tasks = <<>>
    /\ cur = 0
    /\ first_task_index = 0
    /\ calls = <<>>

\* Line 123.  After a wrapped product the loop has written outside the slice
\* split off: the machine may stop there or run on.
BumpTasks ==
    /\ pc = "alloc_tasks"
    /\ LET r == GimmeN(alloc, app_header.task_count, TaskSize, TaskAlign,
                       overflow_checks)
           next == LoopNext(0, app_header.task_count, app_header.task_count)
       IN /\ alloc' = r.free
          /\ IF r.panicked
             THEN /\ pc' = "aborted"
                  /\ UNCHANGED blocks
             ELSE /\ blocks' = Append(blocks, r.block)
                  /\ pc' \in IF r.wild THEN {"undefined", next} ELSE {next}
    /\ cur' = 0
    /\ UNCHANGED <<overflow_checks, scratch, app_header, regions, task_descs,
                   interrupts, tasks, first_task_index, calls>>

\* Lines 146-149, for the first MaxTasks tasks of the table.
BumpRegionTable ==
    /\ pc = "alloc_table"
    /\ LET r == GimmeN(alloc, REGIONS_PER_TASK, RefSize, RefAlign,
                       overflow_checks)
       IN /\ alloc' = r.free
          /\ IF r.panicked
             THEN /\ pc' = "aborted"
                  /\ UNCHANGED <<blocks, cur>>
             ELSE /\ blocks' = Append(blocks, r.block)
                  /\ cur' = cur + 1
                  /\ pc' = IF cur' < MaxTasks
                           THEN LoopNext(cur', app_header.task_count,
                                         app_header.task_count)
                           ELSE "publish_tasks"
    /\ UNCHANGED <<overflow_checks, scratch, app_header, regions, task_descs,
                   interrupts, tasks, first_task_index, calls>>

NextAlloc ==
    \/ BumpTasks
    \/ BumpRegionTable

SpecAlloc == InitAlloc /\ [][NextAlloc]_vars


(***************************************************************************)
(* The whole boot under fairness, over images that take every branch of    *)
(* every loop: each count from 0 up, descriptors that pass and descriptors *)
(* that fail each kind of check.                                          *)
(***************************************************************************)
LiveHeaders ==
    [magic : {CURRENT_APP_MAGIC, 0},
     task_count : 0..MaxTasks,
     region_count : 0..MaxRegions,
     irq_count : 0..MaxIrqs,
     fault_notification : {5},
     zeroed_expansion_space : {ZeroExpansion}]

LiveRegionDescs ==
    [base : {LowBase},
     size : {RegionSize},
     attributes : {{"READ", "EXECUTE"}, {"READ", "WRITE"},
                   {"READ", "WRITE", "RESERVED"}},
     reserved_zero : {0}]

LiveTaskDescs ==
    [priority : {1},
     flags : {{"START_AT_BOOT"}},
     entry_point : {LowBase + 1, LowBase + RegionSize},
     initial_stack : {LowBase + 1, LowBase + RegionSize, LowBase + RegionSize + 1},
     regions : {r \in [1..REGIONS_PER_TASK -> 0..MaxRegions] :
                   /\ r[1] \in {0, MaxRegions}
                   /\ \A k \in 2..REGIONS_PER_TASK : r[k] \in {0, 1}}]

InitLive ==
    /\ pc = "header"
    /\ overflow_checks \in BOOLEAN
    /\ scratch \in BootScratch
    /\ app_header \in LiveHeaders
    /\ regions = <<>>
    /\ task_descs = <<>>
    /\ interrupts = <<>>
    /\ alloc = scratch
    /\ blocks = <<>>
    /\ tasks = <<>>
    /\ cur = 0
    /\ first_task_index = 0
    /\ calls = <<>>

LiveValidateRegion == ValidateRegionFrom(LiveRegionDescs)
LiveValidateTask == ValidateTaskFrom(LiveTaskDescs)

NextLive ==
    \/ ValidateHeader
    \/ LiveValidateRegion
    \/ LiveValidateTask
    \/ ValidateIrq
    \/ AllocTasks
    \/ AllocRegionTable
    \/ Reinitialize
    \/ SetTaskTable
    \/ SetIrqTable
    \/ SetFaultNotification
    \/ Select
    \/ ApplyMemoryProtection
    \/ StartFirstTask

\* The boot code is one sequential thread running with interrupts disabled,
\* and every collaborator it calls returns (or, for start_first_task, takes
\* over): a step that can be taken is taken.
SpecLive == InitLive /\ [][NextLive]_vars /\ WF_vars(NextLive)

(***************************************************************************)
(* What the specification says of the image, stated on the descriptors     *)
(* themselves, in unbounded integer arithmetic.                            *)
(***************************************************************************)
ValidationPcs == {"header", "regions", "tasks", "irqs"}

HeaderViolation ==
    \/ app_header.magic # CURRENT_APP_MAGIC
    \/ app_header.region_count >= RegionLimit
    \/ \E k \in 1..ExpansionLen : app_header.zeroed_expansion_space[k] # 0

RegionViolation(region) ==
    \/ "RESERVED" \in region.attributes
    \/ region.base + region.size >= WordMod
    \/ region.reserved_zero # 0

\* The regions a task names that exist.
NamedRegions(task) ==
    {regions[task.regions[k] + 1] :
        k \in {j \in 1..REGIONS_PER_TASK : task.regions[j] < Len(regions)}}

EntryRegionExists(task) ==
    \E region \in NamedRegions(task) :
        /\ region.base <= task.entry_point
        /\ task.entry_point < region.base + region.size
        /\ "EXECUTE" \in region.attributes

StackRegionExists(task) ==
    \E region \in NamedRegions(task) :
        /\ region.base <= task.initial_stack
        /\ task.initial_stack <= region.base + region.size
        /\ {"READ", "WRITE"} \subseteq region.attributes

TaskViolation(task) ==
    \/ "RESERVED" \in task.flags
    \/ \E k \in 1..REGIONS_PER_TASK : task.regions[k] >= app_header.region_count
    \/ ~EntryRegionExists(task)
    \/ ~StackRegionExists(task)

IrqViolation(irq) == irq.task >= app_header.task_count

\* A violation in the header or in a descriptor read so far.
ImageViolation ==
    \/ HeaderViolation
    \/ \E k \in 1..Len(regions) : RegionViolation(regions[k])
    \/ \E k \in 1..Len(task_descs) : TaskViolation(task_descs[k])
    \/ \E k \in 1..Len(interrupts) : IrqViolation(interrupts[k])

\* Every descriptor the header counts has been read and nothing violates.
FullyValidated ==
    /\ Len(regions) = app_header.region_count
    /\ Len(task_descs) = app_header.task_count
    /\ Len(interrupts) = app_header.irq_count
    /\ ~ImageViolation

Called(op) == \E k \in 1..Len(calls) : calls[k].op = op

\* C1: an image that violates any one of the checked invariants, whatever
\* its other fields hold, is never taken past the check that reads the
\* violation: the boot is aborted (a bad header, known from the start, aborts
\* at the first step), start_first_task is never called and the first task
\* never runs.
C1_ViolationAborts ==
    ImageViolation =>
        /\ pc = "aborted" \/ (pc = "header" /\ HeaderViolation)
        /\ ~Called("start_first_task")

\* A boot aborted on a second region whose base + size wraps, after a first
\* region that passed.
C1_Witness ==
    /\ pc = "aborted"
    /\ Len(regions) = 2
    /\ ~RegionViolation(regions[1])
    /\ regions[2].base + regions[2].size >= WordMod
    /\ "RESERVED" \notin regions[2].attributes
    /\ regions[2].reserved_zero = 0

\* C2: validation is complete before anything is allocated or published:
\* as long as some descriptor is unread or something violates, the
\* allocator's free space is the whole scratch buffer, no block and no task
\* table exist, no collaborator has been called, and the boot is still
\* validating or has aborted.
C2_ValidationBeforeAllocation ==
    ~FullyValidated =>
        /\ alloc = scratch
        /\ blocks = <<>>
        /\ tasks = <<>>
        /\ calls = <<>>
        /\ pc \in ValidationPcs \cup {"aborted"}

\* A boot rejected by the last check of all, an interrupt naming a task that
\* does not exist, with every region and task accepted before it.
C2_Witness ==
    /\ pc = "aborted"
    /\ app_header.task_count >= 1
    /\ Len(task_descs) = app_header.task_count
    /\ Len(interrupts) = 1
    /\ interrupts[1].task >= app_header.task_count
    /\ \A k \in 1..Len(task_descs) : ~TaskViolation(task_descs[k])
    /\ alloc = scratch

\* C3: for regions that passed the overflow check and any entry point and
\* initial stack pointer, the task is accepted exactly when one of its
\* regions has EXECUTE and holds the entry point in [base, base + size) and
\* one of its regions, the same or another, has READ and WRITE and holds the
\* stack pointer in [base, base + size]; region by region, the wrapping
\* subtractions of the code decide exactly these memberships.
C3_EntryStackIntervals ==
    Len(task_descs) = 1 =>
        LET task == task_descs[1] IN
        /\ pc # "aborted" <=> EntryRegionExists(task) /\ StackRegionExists(task)
        /\ \A region \in NamedRegions(task) :
             /\ WrappingSub(task.entry_point, region.base) < region.size
                  <=> /\ region.base <= task.entry_point
                      /\ task.entry_point < region.base + region.size
             /\ WrappingSub(task.initial_stack, region.base) <= region.size
                  <=> /\ region.base <= task.initial_stack
                      /\ task.initial_stack <= region.base + region.size

\* A task accepted through two different regions, its stack pointer exactly
\* at the top of a region that does not start at address 0.
C3_Witness ==
    /\ Len(task_descs) = 1
    /\ pc = "alloc_tasks"
    /\ LET task == task_descs[1] IN
       \E x, w \in NamedRegions(task) :
           /\ x # w
           /\ "EXECUTE" \in x.attributes /\ "WRITE" \notin x.attributes
           /\ "WRITE" \in w.attributes /\ "EXECUTE" \notin w.attributes
           /\ w.base > 0
           /\ task.initial_stack = w.base + w.size
           /\ x.base <= task.entry_point
           /\ task.entry_point < x.base + x.size

CallsOf(op) == {k \in 1..Len(calls) : calls[k].op = op}

\* C4: the table given to set_task_table has task_count entries, entry i
\* refers to task descriptor i, and its region table has REGIONS_PER_TASK
\* elements, element j referring to the region descriptor numbered
\* task_descs[i].regions[j], in the same order and with duplicates kept.
C4_PublishedTable ==
    \A k \in CallsOf("set_task_table") :
        LET table == calls[k].table IN
        /\ Len(table) = app_header.task_count
        /\ \A i \in 1..Len(table) :
             /\ table[i].descriptor = i - 1
             /\ Len(table[i].region_table) = REGIONS_PER_TASK
             /\ \A j \in 1..REGIONS_PER_TASK :
                  table[i].region_table[j] = task_descs[i].regions[j]

\* A published table of two tasks, the first naming one region twice, the
\* second naming two regions in descending order.
C4_Witness ==
    /\ Called("set_task_table")
    /\ Len(tasks) = 2
    /\ task_descs[1].regions[1] = task_descs[1].regions[2]
    /\ task_descs[2].regions[1] > task_descs[2].regions[2]

\* C5: right after the task array is constructed (one block allocated), it
\* has task_count entries; task i is Runnable exactly when descriptor i has
\* START_AT_BOOT and is in the default state otherwise; generation,
\* notification_mask, notifications and timer have their default values.
C5_InitialTaskState ==
    Len(blocks) = 1 =>
        /\ Len(tasks) = app_header.task_count
        /\ \A i \in 1..Len(tasks) :
             /\ tasks[i].state = "Runnable"
                  <=> "START_AT_BOOT" \in task_descs[i].flags
             /\ tasks[i].state \in {"Runnable", "Default"}
             /\ tasks[i].generation = 0
             /\ tasks[i].notification_mask = 0
             /\ tasks[i].notifications = 0
             /\ tasks[i].timer = "default"

\* A fresh table of two tasks, only the second started at boot.
C5_Witness ==
    /\ Len(blocks) = 1
    /\ pc = "alloc_table"
    /\ Len(tasks) = 2
    /\ tasks[1].state = "Default"
    /\ tasks[2].state = "Runnable"
    /\ "START_AT_BOOT" \notin task_descs[1].flags

IsReinitialize(call) == call.op = "reinitialize"
ReinitializeCalls == SelectSeq(calls, IsReinitialize)

PastLoopPcs ==
    {"publish_tasks", "publish_irqs", "fault_note", "select", "protect",
     "start", "running"}

\* C9: arch::reinitialize is called once per task in index order; when it is
\* called for task i all task_count runtime tasks exist, task i's region
\* table has been allocated and assigned, and no region table of a later task
\* has been allocated; once the loop is over every task has had its call.
C9_ReinitializePerTask ==
    /\ \A k \in 1..Len(ReinitializeCalls) :
         LET call == ReinitializeCalls[k] IN
         /\ call.arg = k - 1
         /\ Len(call.table) = app_header.task_count
         /\ Len(call.table[k].region_table) = REGIONS_PER_TASK
         /\ call.nblocks = k + 1
         /\ \A m \in (k + 1)..Len(call.table) : call.table[m].region_table = <<>>
    /\ pc \in PastLoopPcs => Len(ReinitializeCalls) = app_header.task_count

\* The loop is over after two tasks.
C9_Witness ==
    /\ pc = "publish_tasks"
    /\ Len(ReinitializeCalls) = 2
    /\ ReinitializeCalls[2].arg = 1

\* The part of C10 that stands: set_task_table and set_irq_table are called
\* at most once each, exactly once each when the first task is started, and
\* the table published has every region table resolved and every task
\* reinitialized.
PublishedOnce ==
    /\ Cardinality(CallsOf("set_task_table")) <= 1
    /\ Cardinality(CallsOf("set_irq_table")) <= 1
    /\ Called("start_first_task") =>
         /\ Cardinality(CallsOf("set_task_table")) = 1
         /\ Cardinality(CallsOf("set_irq_table")) = 1
    /\ \A k \in CallsOf("set_task_table") \cup CallsOf("set_irq_table") :
         /\ Len(calls[k].table) = app_header.task_count
         /\ \A i \in 1..Len(calls[k].table) :
              /\ Len(calls[k].table[i].region_table) = REGIONS_PER_TASK
              /\ calls[k].table[i].save = "initialized"
         /\ \A i \in 0..(app_header.task_count - 1) :
              \E m \in 1..(k - 1) :
                  calls[m].op = "reinitialize" /\ calls[m].arg = i

\* C10 as claimed: PublishedOnce, and no call made after set_task_table and
\* before start_first_task is given any of the task storage.
C10_NoAccessAfterPublication ==
    /\ PublishedOnce
    /\ \A k \in CallsOf("set_task_table") :
         \A m \in (k + 1)..Len(calls) :
             calls[m].op # "start_first_task" => calls[m].given = "none"

\* C10 as amended: PublishedOnce, and the calls made after set_task_table
\* are set_irq_table, set_fault_notification, select, apply_memory_protection
\* and start_first_task, in this order and once each; of these select is
\* given the task table, apply_memory_protection and start_first_task one of
\* its entries, through the reference the boot code holds, and the other two
\* nothing of it.
AfterPublication ==
    <<"set_irq_table", "set_fault_notification", "select",
      "apply_memory_protection", "start_first_task">>
GivenAfterPublication == <<"none", "none", "tasks", "task", "task">>

C10_AccessOnlyThroughOwnReference ==
    /\ PublishedOnce
    /\ \A k \in CallsOf("set_task_table") :
         /\ Len(calls) - k <= Len(AfterPublication)
         /\ \A m \in (k + 1)..Len(calls) :
              /\ calls[m].op = AfterPublication[m - k]
              /\ calls[m].given = GivenAfterPublication[m - k]

\* The first task is started after a publication of two tasks, select having
\* been given the table in between.
C10_Witness ==
    /\ pc = "running"
    /\ Len(tasks) = 2
    /\ \E k \in CallsOf("set_task_table") :
         \E m \in CallsOf("select") : m > k /\ calls[m].given = "tasks"

(***************************************************************************)
(* The allocator's contract, stated on addresses and true products.        *)
(***************************************************************************)
\* The padding that brings ptr up to a multiple of align.
Padding(ptr, align) == CHOOSE d \in 0..(align - 1) : (ptr + d) % align = 0

\* n elements of the given size fit the free space after the padding.
Fits(free, n, size, align) == free.len - Padding(free.ptr, align) >= n * size

\* The call of gimme_n that is about to be made: its n, size_of::<T>() and
\* align_of::<T>().
PendingCall ==
    IF pc = "alloc_tasks"
    THEN [n |-> app_header.task_count, size |-> TaskSize, align |-> TaskAlign]
    ELSE [n |-> REGIONS_PER_TASK, size |-> RefSize, align |-> RefAlign]

BlockEnd(block) == block.ptr + block.n * block.size

\* One step of the boot measured against the contract of gimme_n: a step
\* that makes a call succeeds exactly when the request fits, and then
\* returns an aligned block of n elements written once each in ascending
\* order, element i holding init(i) at block start + i * size_of(T).
HonoursContract ==
    pc \in {"alloc_tasks", "alloc_table"} =>
        LET call == PendingCall
            block == blocks'[Len(blocks')]
        IN /\ pc' # "aborted" <=> Fits(alloc, call.n, call.size, call.align)
           /\ pc' # "aborted" =>
                /\ Len(blocks') = Len(blocks) + 1
                /\ block.ptr % call.align = 0
                /\ block.n = call.n
                /\ Len(block.writes) = call.n
                /\ \A i \in 0..(call.n - 1) :
                     /\ block.writes[i + 1].idx = i
                     /\ block.writes[i + 1].addr = block.ptr + i * call.size
                     /\ ElementAt(block, i) = i

\* C6: a call of gimme_n(n, init) succeeds exactly when the free space less
\* the alignment padding holds n * size_of(T) bytes, and aborts the boot
\* otherwise; the block returned starts aligned for T and has n elements,
\* written once each in ascending order, element i holding init(i) at
\* block start + i * size_of(T).
C6_GimmeNContract == [][HonoursContract]_vars

\* C7: every block gimme_n has written and returned lies inside
\* [scratch_ram, scratch_ram + scratch_ram_size); a request that does not fit
\* returns no block.
C7_BlocksInsideScratch ==
    \A k \in 1..Len(blocks) :
        /\ scratch.ptr <= blocks[k].ptr
        /\ BlockEnd(blocks[k]) <= scratch.ptr + scratch.len

FreeViewShrinks ==
    pc' # "aborted" =>
        /\ alloc'.ptr >= alloc.ptr
        /\ alloc'.ptr + alloc'.len = alloc.ptr + alloc.len

BlocksInOrder ==
    \A k, m \in 1..Len(blocks') :
        k < m => BlockEnd(blocks'[k]) <= blocks'[m].ptr

\* C8: a call of gimme_n that returns leaves the free view with the same end
\* and a start that is no lower; every block starts at or after the end of
\* every block returned before it, so that no two blocks overlap.
C8_MonotonicDisjoint == [][FreeViewShrinks /\ BlocksInOrder]_vars

(***************************************************************************)
(* The handoff (lines 164-181).                                            *)
(***************************************************************************)
HandoffOps ==
    <<"set_task_table", "set_irq_table", "set_fault_notification", "select",
      "apply_memory_protection", "start_first_task">>

IsHandoff(call) == \E k \in 1..Len(HandoffOps) : call.op = HandoffOps[k]
HandoffCalls == SelectSeq(calls, IsHandoff)

\* C11: the handoff calls are made in the order set_task_table,
\* set_irq_table, set_fault_notification, select, apply_memory_protection,
\* start_first_task, none of them twice and all six when the first task runs;
\* set_fault_notification is given the header's fault_notification, and
\* apply_memory_protection and start_first_task are given the task at the
\* index select returned.
C11_HandoffOrder ==
    /\ Len(HandoffCalls) <= Len(HandoffOps)
    /\ \A k \in 1..Len(HandoffCalls) : HandoffCalls[k].op = HandoffOps[k]
    /\ pc = "running" => Len(HandoffCalls) = Len(HandoffOps)
    /\ \A k \in CallsOf("set_fault_notification") :
         calls[k].arg = app_header.fault_notification
    /\ \A k \in CallsOf("apply_memory_protection") \cup CallsOf("start_first_task") :
         /\ calls[k].arg = first_task_index
         /\ calls[k].given = "task"
         /\ calls[k].arg < Len(calls[k].table)

\* The first task runs, select having returned the second task of two and
\* the header holding a fault notification mask other than zero.
C11_Witness ==
    /\ pc = "running"
    /\ Len(tasks) = 2
    /\ first_task_index = 1
    /\ app_header.fault_notification # 0
    /\ \E k \in CallsOf("start_first_task") : calls[k].arg = 1

\* C12 as claimed: select is given the full task table and, as the index of
\* the task last run, the index one past the last task: task_count.
C12_OnePastLast ==
    \A k \in CallsOf("select") :
        /\ calls[k].given = "tasks"
        /\ Len(calls[k].table) = app_header.task_count
        /\ calls[k].arg = app_header.task_count

\* C12 as amended: select is given the full task table and tasks.len() - 1:
\* with one task or more the index of the last task, task_count - 1; with no
\* task the subtraction underflows, and select is then called only by a
\* build without overflow checks, with the largest usize.
C12_LastTaskIndex ==
    \A k \in CallsOf("select") :
        /\ calls[k].given = "tasks"
        /\ Len(calls[k].table) = app_header.task_count
        /\ IF app_header.task_count >= 1
           THEN calls[k].arg = app_header.task_count - 1
           ELSE ~overflow_checks /\ calls[k].arg = UsizeMod - 1

\* select has been called on a table of two tasks with index 1.
C12_Witness ==
    /\ pc = "protect"
    /\ app_header.task_count = 2
    /\ \E k \in CallsOf("select") :
         calls[k].arg = 1 /\ Len(calls[k].table) = 2

\* C13: select is called at most once; once the handoff has gone past the
\* call (the fault notification is set and the boot is no longer about to
\* select) it has been called exactly once; it is given task_count - 1 and
\* the full task table of task_count entries.
C13_SelectOnce ==
    /\ Cardinality(CallsOf("select")) <= 1
    /\ Called("set_fault_notification") /\ pc # "select" =>
         Cardinality(CallsOf("select")) = 1
    /\ \A k \in CallsOf("select") :
         /\ calls[k].arg = app_header.task_count - 1
         /\ calls[k].given = "tasks"
         /\ Len(calls[k].table) = app_header.task_count

\* C18: an image that validation has accepted has at least one task; the
\* index given to select is an index of the task table, and the handoff does
\* not abort on the way to select.
C18_TaskCountAtLeastOne ==
    /\ FullyValidated /\ pc \notin ValidationPcs => app_header.task_count >= 1
    /\ \A k \in CallsOf("select") :
         /\ 0 <= calls[k].arg
         /\ calls[k].arg < Len(calls[k].table)
    /\ Called("set_fault_notification") /\ ~Called("select") => pc # "aborted"

\* The region descriptors a runtime task's region table refers to.
ResolvedRegions(task) ==
    {regions[task.region_table[j] + 1] : j \in 1..Len(task.region_table)}

\* C14: in the task table given to set_task_table, the region table of
\* every task refers to a region with EXECUTE whose [base, base + size) holds
\* the entry point of the task's descriptor, and to a region, the same or
\* another, with READ and WRITE whose [base, base + size] holds its initial
\* stack pointer.
C14_PublishedRegionsCover ==
    \A k \in CallsOf("set_task_table") :
        \A i \in 1..Len(calls[k].table) :
            LET task == calls[k].table[i]
                desc == task_descs[task.descriptor + 1]
            IN /\ \E region \in ResolvedRegions(task) :
                    /\ "EXECUTE" \in region.attributes
                    /\ region.base <= desc.entry_point
                    /\ desc.entry_point < region.base + region.size
               /\ \E region \in ResolvedRegions(task) :
                    /\ {"READ", "WRITE"} \subseteq region.attributes
                    /\ region.base <= desc.initial_stack
                    /\ desc.initial_stack <= region.base + region.size

\* A table is published in which a task has its entry point in a region
\* without WRITE and its stack pointer at the very top of another region,
\* without EXECUTE, named second.
C14_Witness ==
    /\ Called("set_task_table")
    /\ \E i \in 1..Len(tasks) :
         LET desc == task_descs[i]
             x == regions[desc.regions[1] + 1]
             w == regions[desc.regions[2] + 1]
         IN /\ desc.regions[1] # desc.regions[2]
            /\ "EXECUTE" \in x.attributes /\ "WRITE" \notin x.attributes
            /\ "WRITE" \in w.attributes /\ "EXECUTE" \notin w.attributes
            /\ desc.initial_stack = w.base + w.size
            /\ tasks[i].region_table = desc.regions

(***************************************************************************)
(* Termination.                                                            *)
(***************************************************************************)
Terminal == pc = "aborted" \/ pc = "running"

\* No step of the boot is taken from a terminal state.
StaysTerminal == Terminal \/ Called("start_first_task") => UNCHANGED vars

\* C15: every boot run reaches one of the two terminal states, aborted or
\* running the first task; the first task runs exactly when start_first_task
\* has been called; and from a terminal state, in particular once
\* start_first_task has been called, no step of the boot is taken again.
C15_EndsAbortedOrRunning ==
    /\ <>Terminal
    /\ [](Called("start_first_task") <=> pc = "running")
    /\ [][StaysTerminal]_vars

\* The first task of a table of two runs, after every loop of the boot has
\* run: two regions, two tasks, one interrupt.
C15_Witness ==
    /\ pc = "running"
    /\ Len(regions) = 2
    /\ Len(tasks) = 2
    /\ Len(interrupts) = 1
    /\ Len(ReinitializeCalls) = 2

(***************************************************************************)
(* The boot of an image of one task.                                       *)
(***************************************************************************)
\* The bytes the construction of n tasks takes from the scratch buffer: the
\* padding before the task array, the array, and one region table per task
\* (the end of the task array is aligned for a reference).
ScratchNeeded(n) ==
    Padding(scratch.ptr, TaskAlign) + n * TaskSize
        + n * REGIONS_PER_TASK * RefSize

\* The run is, so far, the boot of a valid image of one task with enough
\* scratch and a select that returns an index of the table.
GoodRunOfOne ==
    /\ app_header.task_count = 1
    /\ ~ImageViolation
    /\ scratch.len >= ScratchNeeded(1)
    /\ Called("select") => first_task_index < Len(tasks)

\* C16: the boot of a valid image of one task, with enough scratch and a
\* select that returns an index of the table, never aborts and ends with the
\* first task running; the task table then has one entry, made from task
\* descriptor 0 with its region table resolved, and it is task 0 that
\* apply_memory_protection and start_first_task were given.
C16_OneTaskBoots ==
    /\ [](GoodRunOfOne => pc # "aborted")
    /\ [](GoodRunOfOne /\ pc = "running" =>
            /\ Len(tasks) = 1
            /\ tasks[1].descriptor = 0
            /\ tasks[1].region_table = task_descs[1].regions
            /\ \E k \in CallsOf("apply_memory_protection") : calls[k].arg = 0
            /\ \E k \in CallsOf("start_first_task") : calls[k].arg = 0)
    /\ <>(pc = "running" \/ ~GoodRunOfOne)

\* The scenario of the specification: one task, two regions, no interrupt,
\* regions [0, 1], the entry point inside region 0 (EXECUTE), the stack
\* pointer exactly at the top of region 1 (READ and WRITE); task 0 runs.
C16_Witness ==
    /\ pc = "running"
    /\ GoodRunOfOne
    /\ app_header.region_count = 2
    /\ app_header.irq_count = 0
    /\ task_descs[1].regions = <<0, 1>>
    /\ "EXECUTE" \in regions[1].attributes
    /\ regions[1].base < task_descs[1].entry_point
    /\ task_descs[1].entry_point < regions[1].base + regions[1].size
    /\ regions[2].attributes = {"READ", "WRITE"}
    /\ task_descs[1].initial_stack = regions[2].base + regions[2].size
    /\ first_task_index = 0

\* C17: the priority of every runtime task is the priority its descriptor
\* holds, whatever value that is.
C17_PriorityPreserved ==
    \A i \in 1..Len(tasks) : tasks[i].priority = task_descs[i].priority

(***************************************************************************)
(* Indexing.                                                               *)
(***************************************************************************)
\* The header has passed its checks and a loop of the boot has been entered.
PastHeader ==
    \/ pc \notin {"header", "aborted"}
    \/ Len(regions) > 0
    \/ Len(task_descs) > 0
    \/ Len(interrupts) > 0

\* The boot was aborted during construction: after validation accepted the
\* image and before the task table was published.
AbortedInConstruction ==
    /\ pc = "aborted"
    /\ FullyValidated
    /\ ~Called("set_task_table")

\* C19: past the header checks region_count is below 256 and equals its
\* truncation to 8 bits, so that the test the task loop makes on a region
\* index decides exactly region_idx < region_count; every task that passes
\* names only regions that exist; every runtime task refers to an existing
\* task descriptor and every element of a region table to an existing region
\* descriptor; and a boot aborted during construction is one whose scratch
\* buffer is too small for the tables.
C19_IndicesInBounds ==
    /\ PastHeader =>
         /\ app_header.region_count < RegionLimit
         /\ app_header.region_count % ByteMod = app_header.region_count
    /\ \A k \in 1..Len(task_descs) :
         /\ \A j \in 1..REGIONS_PER_TASK :
              RegionIdxOk(task_descs[k].regions[j], app_header, regions)
                  <=> task_descs[k].regions[j] < app_header.region_count
         /\ TaskOk(task_descs[k], app_header, regions) =>
              \A j \in 1..REGIONS_PER_TASK :
                  /\ task_descs[k].regions[j] < app_header.region_count
                  /\ task_descs[k].regions[j] < Len(regions)
    /\ \A i \in 1..Len(tasks) :
         /\ tasks[i].descriptor \in 0..(Len(task_descs) - 1)
         /\ \A j \in 1..Len(tasks[i].region_table) :
              tasks[i].region_table[j] \in 0..(Len(regions) - 1)
    /\ AbortedInConstruction =>
         scratch.len < ScratchNeeded(app_header.task_count)

\* A boot aborted during construction, on a scratch buffer that is not empty
\* and too small for two tasks, one of which names the last region twice.
C19_Witness ==
    /\ AbortedInConstruction
    /\ app_header.task_count = 2
    /\ app_header.region_count = 2
    /\ scratch.len > 0
    /\ \E k \in 1..Len(task_descs) : task_descs[k].regions = <<1, 1>>

(***************************************************************************)
(* The overflow check of the region loop.                                  *)
(***************************************************************************)
\* Region k is the one the region loop stopped at.
RegionRejected(k) ==
    /\ pc = "aborted"
    /\ k = Len(regions)
    /\ Len(task_descs) = 0

\* C20: a region whose attributes and reserved word are in order passes the
\* region loop exactly when the true sum base + size is at most the largest
\* word; a region of size 0 passes; a region with base > 0 that ends exactly
\* at the top of the address space is rejected.
C20_OverflowCheck ==
    \A k \in 1..Len(regions) :
        LET region == regions[k] IN
        /\ ~RegionRejected(k) <=> region.base + region.size <= WordMod - 1
        /\ region.size = 0 => ~RegionRejected(k)
        /\ region.base > 0 /\ region.base + region.size = WordMod =>
             RegionRejected(k)

\* The loop accepts an empty region at the last address and then stops at a
\* region that starts above 0 and ends exactly at the top of the address
\* space.
C20_Witness ==
    /\ Len(regions) = 2
    /\ RegionRejected(2)
    /\ regions[1].base = WordMod - 1
    /\ regions[1].size = 0
    /\ regions[2].base > 0
    /\ regions[2].base + regions[2].size = WordMod

====
